---- MODULE Spec2Model ----
(***************************************************************************)
(* A model of move_imported_files/core.py: the timestamp resolver          *)
(* (get_exif_datetime_taken, get_file_datetime, month_folder_name) and the *)
(* organizer move_files, run against a small filesystem.                   *)
(*                                                                         *)
(* A path is a sequence of components; a component is a record             *)
(* [stem, ext] where ext is the suffix as a sequence of characters, the    *)
(* dot first (<<>> for a name without suffix).  The filesystem is a set of *)
(* directories (paths) and a set of files [path, id]; id names the file's  *)
(* content and metadata (Meta), which travel with it when it is moved.     *)
(***************************************************************************)
EXTENDS Integers, Sequences, FiniteSets, TLC

\* ------------------------------------------------------------------ bounds

\* At most this many files of the Catalogue exist when the program starts.
MaxFiles == 3

\* At most this many filesystem operations (mkdir, move) fail in one session.
MaxFaults == 1

\* ---------------------------------------------------------------- constants

\* datetime.MINYEAR and datetime.MAXYEAR: fromtimestamp and strptime raise
\* ValueError for a year outside this range.
MINYEAR == 1
MAXYEAR == 9999

DUTCH_MONTHS ==
  << "01_januari", "02_februari", "03_maart", "04_april",
     "05_mei", "06_juni", "07_juli", "08_augustus",
     "09_september", "10_oktober", "11_november", "12_december" >>

MEDIA_EXTENSIONS ==
  { <<".", "j", "p", "g">>, <<".", "j", "p", "e", "g">>, <<".", "t", "i", "f", "f">>,
    <<".", "t", "i", "f">>, <<".", "p", "n", "g">>, <<".", "h", "e", "i", "c">>,
    <<".", "h", "e", "i", "f">>,
    <<".", "g", "i", "f">>, <<".", "b", "m", "p">>, <<".", "w", "e", "b", "p">>,
    <<".", "m", "p", "4">>, <<".", "m", "o", "v">>, <<".", "a", "v", "i">>,
    <<".", "m", "k", "v">>, <<".", "3", "g", "p">>, <<".", "m", "t", "s">>,
    <<".", "m", "4", "v">> }

\* The extensions get_file_datetime tries EXIF on.
EXIF_EXTENSIONS ==
  { <<".", "j", "p", "g">>, <<".", "j", "p", "e", "g">>, <<".", "t", "i", "f", "f">>,
    <<".", "t", "i", "f">>, <<".", "p", "n", "g">>, <<".", "h", "e", "i", "c">>,
    <<".", "h", "e", "i", "f">> }

AAE_EXTENSION == <<".", "a", "a", "e">>

\* ------------------------------------------------------------ str.lower()

UpperChars ==
  << "A", "B", "C", "D", "E", "F", "G", "H", "I", "J", "K", "L", "M",
     "N", "O", "P", "Q", "R", "S", "T", "U", "V", "W", "X", "Y", "Z" >>

LowerChars ==
  << "a", "b", "c", "d", "e", "f", "g", "h", "i", "j", "k", "l", "m",
     "n", "o", "p", "q", "r", "s", "t", "u", "v", "w", "x", "y", "z" >>

LowerChar(c) ==
  IF \E i \in 1..Len(UpperChars) : UpperChars[i] = c
    THEN LowerChars[CHOOSE i \in 1..Len(UpperChars) : UpperChars[i] = c]
    ELSE c

\* s.lower() of a sequence of characters.
Lower(s) == [i \in 1..Len(s) |-> LowerChar(s[i])]

\* Path(fname).suffix of a component.
Suffix(fname) == fname.ext

\* ------------------------------------------------------------------- paths

\* A directory component (no suffix).
D(s) == [stem |-> s, ext |-> <<>>]

\* A file component.
F(s, e) == [stem |-> s, ext |-> e]

\* Path / name
Join(dir, fname) == Append(dir, fname)

Parent(p) == SubSeq(p, 1, Len(p) - 1)

\* p and every ancestor of p (the directories mkdir(parents=True) makes).
Prefixes(p) == { SubSeq(p, 1, n) : n \in 1..Len(p) }

\* ------------------------------------------------------- dates and times

\* Python's None.
None == [tag |-> "None"]

\* A str value; fields are the numbers a "YYYY:MM:DD HH:MM:SS" text holds, in
\* order (fewer or more than six when the text does not have that shape).
Str(fields) == [tag |-> "str", fields |-> fields]

\* A datetime.datetime value.
DateTime(y, mo, d, h, mi, s) ==
  [tag |-> "dt", year |-> y, month |-> mo, day |-> d,
   hour |-> h, minute |-> mi, second |-> s]

\* A raised exception, with str(e).
Raise(msg) == [tag |-> "raise", error |-> msg]

\* bool(v) for the values the resolver tests: None and "" are falsy, a
\* datetime and a non-empty str are truthy.
Truthy(v) ==
  CASE v.tag = "None" -> FALSE
    [] v.tag = "str" -> v.fields # <<>>
    [] OTHER -> TRUE

IsLeap(y) == (y % 4 = 0 /\ y % 100 # 0) \/ y % 400 = 0

DaysInMonth(y, mo) ==
  CASE mo \in {4, 6, 9, 11} -> 30
    [] mo = 2 -> IF IsLeap(y) THEN 29 ELSE 28
    [] OTHER -> 31

\* datetime.datetime.strptime(date_str, "%Y:%m:%d %H:%M:%S"): ValueError when
\* the text does not match the format or a field is out of range.
strptime(date_str) ==
  LET f == date_str.fields IN
  IF /\ Len(f) = 6
     /\ f[1] \in MINYEAR..MAXYEAR
     /\ f[2] \in 1..12
     /\ f[3] \in 1..DaysInMonth(f[1], f[2])
     /\ f[4] \in 0..23
     /\ f[5] \in 0..59
     /\ f[6] \in 0..61
    THEN DateTime(f[1], f[2], f[3], f[4], f[5], IF f[6] > 59 THEN 59 ELSE f[6])
    ELSE Raise("time data does not match format")

\* The civil date of a day count since 1970-01-01 (proleptic Gregorian).
CivilFromDays(days) ==
  LET z == days + 719468
      era == z \div 146097
      doe == z - era * 146097
      yoe == (doe - doe \div 1460 + doe \div 36524 - doe \div 146096) \div 365
      doy == doe - (365 * yoe + yoe \div 4 - yoe \div 100)
      mp == (5 * doy + 2) \div 153
      d == doy - (153 * mp + 2) \div 5 + 1
      mo == IF mp < 10 THEN mp + 3 ELSE mp - 9
      y == yoe + era * 400 + (IF mo <= 2 THEN 1 ELSE 0)
  IN  [year |-> y, month |-> mo, day |-> d]

\* datetime.datetime.fromtimestamp(st_mtime), st_mtime held as whole days since
\* the epoch plus the second of the day: ValueError when the year falls
\* outside MINYEAR..MAXYEAR.
FromCivil(c, s) ==
  IF c.year \in MINYEAR..MAXYEAR
    THEN DateTime(c.year, c.month, c.day, s \div 3600, (s % 3600) \div 60, s % 60)
    ELSE Raise("year is out of range")

fromtimestamp(st_mtime) == FromCivil(CivilFromDays(st_mtime.days), st_mtime.secs)

\* month_folder_name indexing the list by dt.month, without the - 1.
month_folder_name_off_by_one(dt) == DUTCH_MONTHS[dt.month + 1]

\* month_folder_name(dt): DUTCH_MONTHS[dt.month - 1] of a 0-based list.
month_folder_name(dt) == DUTCH_MONTHS[(dt.month - 1) + 1]

\* --------------------------------------------------------------- metadata

\* st_mtime values.
Mtime(days, secs) == [days |-> days, secs |-> secs]

\* What a file holds: whether Image.open can read it, the EXIF tags by
\* name (None when _getexif() returns None), and st_mtime.
FileMeta(image, exif, mtime) == [image |-> image, exif |-> exif, mtime |-> mtime]

\* Metadata of the files of the Catalogue, by id.
Meta(id) ==
  CASE id = 1 -> \* photo.jpg, taken 2023-05-14 10:00:00, copied 2024-01-15
         FileMeta(TRUE, [DateTimeOriginal |-> Str(<<2023, 5, 14, 10, 0, 0>>),
                         DateTime |-> Str(<<2024, 1, 15, 9, 30, 0>>)],
                  Mtime(19737, 34200))
    [] id = 2 -> \* another photo.jpg: only the generic DateTime tag, 2023-05-20
         FileMeta(TRUE, [DateTime |-> Str(<<2023, 5, 20, 18, 45, 10>>)],
                  Mtime(19298, 0))
    [] id = 3 -> \* clip.MOV, modified 2022-11-02
         FileMeta(FALSE, None, Mtime(19298, 43200))
    [] id = 6 -> \* a photo.jpg already filed under 2023/05_mei, which
                 \* Image.open cannot read; modified 2023-05-01
         FileMeta(FALSE, None, Mtime(19478, 28800))
    [] id = 7 -> \* old.png: DateTimeOriginal zeroed, DateTime valid; modified 2022-11-02
         FileMeta(TRUE, [DateTimeOriginal |-> Str(<<0, 0, 0, 0, 0, 0>>),
                         DateTime |-> Str(<<2021, 7, 4, 12, 0, 0>>)],
                  Mtime(19298, 100))
    [] id = 8 -> \* bad.mp4: st_mtime = 300000000000 s, the year 11476
         FileMeta(FALSE, None, Mtime(3472222, 19200))
    [] id = 10 -> \* empty.jpeg: DateTimeOriginal is "", DateTime 2022-11-30
         FileMeta(TRUE, [DateTimeOriginal |-> Str(<<>>),
                         DateTime |-> Str(<<2022, 11, 30, 23, 59, 59>>)],
                  Mtime(19737, 0))
    [] OTHER -> \* text files and logs
         FileMeta(FALSE, None, Mtime(19737, 0))

\* ---------------------------------------------------------------- resolver

\* dict.get(key): the value, or None.
DictGet(d, key) == IF key \in DOMAIN d THEN d[key] ELSE None

\* a or b
Or(a, b) == IF Truthy(a) THEN a ELSE b

\* The body of get_exif_datetime_taken's try block: Image.open raises for a
\* file it cannot read.
exif_try(meta) ==
  IF ~meta.image THEN Raise("cannot identify image file")
  ELSE IF meta.exif = None \/ DOMAIN meta.exif = {} THEN None
  ELSE LET date_str == Or(DictGet(meta.exif, "DateTimeOriginal"),
                          DictGet(meta.exif, "DateTime"))
       IN  IF ~Truthy(date_str) THEN None ELSE strptime(date_str)

\* get_exif_datetime_taken(path): except Exception: return None.
get_exif_datetime_taken(meta) ==
  LET r == exif_try(meta) IN IF r.tag = "raise" THEN None ELSE r

\* get_file_datetime(path): the EXIF time for the EXIF-capable suffixes when
\* there is one, else fromtimestamp(st_mtime), whose exception propagates.
get_file_datetime(fname, meta) ==
  LET dtx == IF Lower(Suffix(fname)) \in EXIF_EXTENSIONS
               THEN get_exif_datetime_taken(meta) ELSE None
  IN  IF Truthy(dtx) THEN dtx ELSE fromtimestamp(meta.mtime)

\* -------------------------------------------------------------- filesystem

JPG == <<".", "j", "p", "g">>
TXT == <<".", "t", "x", "t">>

IMP == <<D("imp")>>

\* The files that may exist when the program starts, for a base target.
Catalogue(base) ==
  { [path |-> IMP \o <<D("a"), F("photo", JPG)>>, id |-> 1],
    [path |-> IMP \o <<D("b"), F("photo", JPG)>>, id |-> 2],
    [path |-> IMP \o <<D("a"), F("clip", <<".", "M", "O", "V">>)>>, id |-> 3],
    [path |-> IMP \o <<D("a"), F("note", <<".", "A", "A", "E">>)>>, id |-> 4],
    [path |-> IMP \o <<D("b"), F("readme", TXT)>>, id |-> 5],
    [path |-> base \o <<D("2023"), D("05_mei"), F("photo", JPG)>>, id |-> 6],
    [path |-> IMP \o <<D("b"), F("old", <<".", "p", "n", "g">>)>>, id |-> 7],
    [path |-> IMP \o <<D("b"), F("bad", <<".", "m", "p", "4">>)>>, id |-> 8],
    [path |-> base \o <<D("_move_logs"), F("move_log_0", TXT)>>, id |-> 9],
    [path |-> IMP \o <<F("empty", <<".", "j", "p", "e", "g">>)>>, id |-> 10] }

\* Path.exists(): a directory or a file is there.
Exists(fs_files, fs_dirs, p) == p \in fs_dirs \/ \E f \in fs_files : f.path = p

\* Path.is_dir()
IsDir(fs_dirs, p) == p \in fs_dirs

FileAt(fs_files, p) == CHOOSE f \in fs_files : f.path = p

\* os.scandir(top), as os.walk splits it: the names of the files and of the
\* directories directly under top (nothing for a path that is no directory).
ListFiles(fs_files, top) == { f.path[Len(f.path)] : f \in { g \in fs_files : Parent(g.path) = top } }

ListDirs(fs_dirs, top) == { d \in fs_dirs : Len(d) = Len(top) + 1 /\ Parent(d) = top }

\* ------------------------------------------------------------------- state

VARIABLES
  source_dir,               \* move_files' arguments
  base_target,
  dry_run,
  files,                    \* the filesystem: files [path, id]
  dirs,                     \*   and directories
  pc,                       \* "init", "walk" (the os.walk loops), "done", "raised"
  frames,                   \* os.walk: per directory entered, its subdirectories still to visit
  root,                     \* os.walk: the directory being listed
  pending,                  \* the names of `files` the inner loop has not reached yet
  scanned_files,
  moved_count,
  skipped_aae,
  skipped_non_media,
  skipped_non_media_files,
  conflicts,
  errors,
  src_path,                 \* the file the loop body last ran for
  dt,                       \* what get_file_datetime gave for it (None: not called)
  ret,                      \* the returned dict (None until the return)
  log_text,                 \* what was written to the log file
  clock,                    \* datetime.now(), in seconds
  fault,                    \* the filesystem operation that failed in the last loop body
  faults,                   \* how many have failed so far
  would_move,               \* times the dry-run branch (lines 103-105) was taken
  listed,                   \* how many file names os.walk has yielded
  files0,                   \* the filesystem when this call started
  dirs0,
  run,                      \* which call of the session this is
  first                     \* what the first call returned (None during it)

vars ==
  << source_dir, base_target, dry_run, files, dirs, pc, frames, root, pending,
     scanned_files, moved_count, skipped_aae, skipped_non_media,
     skipped_non_media_files, conflicts, errors, src_path, dt, ret, log_text,
     clock, fault, faults, would_move, listed, files0, dirs0, run, first >>

\* The state one pass of the loop body reads and writes.
LoopState ==
  [files |-> files, dirs |-> dirs, moved_count |-> moved_count,
   skipped_aae |-> skipped_aae, skipped_non_media |-> skipped_non_media,
   skipped_non_media_files |-> skipped_non_media_files,
   conflicts |-> conflicts, errors |-> errors, would_move |-> would_move,
   dt |-> None, fault |-> "none"]

\* A step of the try block: the state it leaves and the exception it raised.
Ok(st) == [st |-> st, exc |-> None]

Raised(st, msg) == [st |-> st, exc |-> Raise(msg)]

\* ---------------------------------------------------------- the loop body

\* The extension compared as written, without .lower().
FileExt_no_lower(fname) == Suffix(fname)

\* ext = Path(fname).suffix.lower()
FileExt(fname) == Lower(Suffix(fname))

\* if ext == ".aae": skipped_aae += 1; continue
SkipAae(st) == [st EXCEPT !.skipped_aae = @ + 1]

\* if ext not in MEDIA_EXTENSIONS: count, record the path, continue
SkipNonMedia(st, sp) ==
  [st EXCEPT !.skipped_non_media = @ + 1,
             !.skipped_non_media_files = Append(@, sp)]

\* mkdir(parents=True) without exist_ok: FileExistsError for a directory that
\* is already there.
Mkdir_no_exist_ok(st, dest_dir, flt) ==
  IF dest_dir \in st.dirs \/ \E f \in st.files : f.path \in Prefixes(dest_dir)
    THEN Raised(st, "File exists")
  ELSE IF flt = "mkdir"
    THEN Raised([st EXCEPT !.fault = "mkdir"], "Permission denied")
  ELSE Ok([st EXCEPT !.dirs = @ \cup Prefixes(dest_dir)])

\* dest_dir.mkdir(parents=True, exist_ok=True).  It raises when a file is in
\* the way, or when the directory has to be made and the filesystem refuses
\* (flt = "mkdir": no permission, read-only or full volume).
Mkdir(st, dest_dir, flt) ==
  IF \E f \in st.files : f.path \in Prefixes(dest_dir)
    THEN Raised(st, "File exists")
  ELSE IF dest_dir \in st.dirs
    THEN Ok(st)
  ELSE IF flt = "mkdir"
    THEN Raised([st EXCEPT !.fault = "mkdir"], "Permission denied")
  ELSE Ok([st EXCEPT !.dirs = @ \cup Prefixes(dest_dir)])

\* No conflict branch: the file is moved over what is at dest_path.
RecordConflict_overwrite(st, sp, dest_path) ==
  [st EXCEPT !.files = { f \in @ : f.path \notin {sp, dest_path} }
                         \cup { [path |-> dest_path, id |-> FileAt(@, sp).id] },
             !.moved_count = @ + 1]

\* if dest_path.exists(): conflicts.append(...); continue
RecordConflict(st, sp, dest_path) ==
  [st EXCEPT !.conflicts = Append(@, [source |-> sp, destination |-> dest_path])]

\* if dry_run: (only the verbose print)
DryRunBranch(st) == [st EXCEPT !.would_move = @ + 1]

\* The move without moved_count += 1.
Move_no_count(st, sp, dest_path, flt) ==
  CASE flt = "move" ->
         Raised([st EXCEPT !.fault = "move"], "Permission denied")
    [] flt = "move_copied" ->
         Raised([st EXCEPT !.fault = "move_copied",
                           !.files = @ \cup {[path |-> dest_path, id |-> FileAt(@, sp).id]}],
                "Permission denied")
    [] OTHER ->
         Ok([st EXCEPT !.files = { f \in @ : f.path # sp }
                                   \cup {[path |-> dest_path, id |-> FileAt(@, sp).id]}])

\* shutil.move(src, dest); moved_count += 1.  The move raises when the
\* filesystem refuses it: before anything changed (flt = "move"), or, moving
\* by copy and delete, after the copy was made (flt = "move_copied").
Move(st, sp, dest_path, flt) ==
  LET f == FileAt(st.files, sp)
      moved == [path |-> dest_path, id |-> f.id]
  IN  CASE flt = "move" ->
             Raised([st EXCEPT !.fault = "move"], "Permission denied")
        [] flt = "move_copied" ->
             Raised([st EXCEPT !.fault = "move_copied", !.files = @ \cup {moved}],
                    "Permission denied")
        [] OTHER ->
             Ok([st EXCEPT !.files = (@ \ {f}) \cup {moved},
                           !.moved_count = @ + 1])

\* except Exception: pass
OnException_pass(st, sp, msg) == st

\* except Exception as e: errors.append({"file": ..., "error": str(e)})
OnException(st, sp, msg) ==
  [st EXCEPT !.errors = Append(@, [file |-> sp, error |-> msg])]

\* dest_dir = base_target / year / month_folder
DestDir(base, r) == base \o <<D(ToString(r.year)), D(month_folder_name(r))>>

\* The try block from dest_path on, m being what mkdir left.
AfterMkdir(m, sp, dest_path, dry, flt) ==
  IF m.exc # None THEN m
  ELSE IF Exists(m.st.files, m.st.dirs, dest_path)
    THEN Ok(RecordConflict(m.st, sp, dest_path))
  ELSE IF dry THEN Ok(DryRunBranch(m.st))
  ELSE Move(m.st, sp, dest_path, flt)

\* The try block from `year = ...` on, r being what get_file_datetime gave
\* (a raised exception leaves the block at once).
AfterResolve(st, sp, fname, dry, base, flt, r) ==
  IF r.tag = "raise" THEN [st |-> st, exc |-> r]
  ELSE AfterMkdir(Mkdir(st, DestDir(base, r), flt), sp,
                  Join(DestDir(base, r), fname), dry, flt)

\* dt = get_file_datetime(src_path).  The file is one os.walk has just
\* listed and nothing else removes files, so path.stat() finds it.
Resolve(st, sp, fname) == get_file_datetime(fname, Meta(FileAt(st.files, sp).id))

\* The try block for one media file.
TryBlock(st, sp, fname, dry, base, flt, r) ==
  AfterResolve([st EXCEPT !.dt = r], sp, fname, dry, base, flt, r)

\* The except clause applied to what the try block left.
Caught(t, sp) ==
  IF t.exc # None THEN OnException(t.st, sp, t.exc.error) ELSE t.st

\* try ... except for one media file.
Place(st, sp, fname, dry, base, flt) ==
  Caught(TryBlock(st, sp, fname, dry, base, flt, Resolve(st, sp, fname)), sp)

\* One pass of `for fname in files`.
LoopBody(st, sp, fname, dry, base, flt) ==
  LET ext == FileExt(fname)
  IN  IF ext = AAE_EXTENSION THEN SkipAae(st)
      ELSE IF ext \notin MEDIA_EXTENSIONS THEN SkipNonMedia(st, sp)
      ELSE Place(st, sp, fname, dry, base, flt)

\* ----------------------------------------------------------------- actions

BaseTargets == { <<D("foto")>>, IMP \o <<D("foto")>> }

\* A directory, a path that does not exist, and the path of a file.
SourceDirs == { IMP, <<D("gone")>>, IMP \o <<D("a"), F("photo", JPG)>> }

FaultKinds == {"mkdir", "move", "move_copied"}

\* Only source.exists(), without is_dir().
SourceOk_exists_only(fs_files, fs_dirs, source) == Exists(fs_files, fs_dirs, source)

\* source.exists() and source.is_dir()
SourceOk(fs_files, fs_dirs, source) ==
  Exists(fs_files, fs_dirs, source) /\ IsDir(fs_dirs, source)

Init ==
  /\ source_dir \in SourceDirs
  /\ base_target \in BaseTargets
  /\ dry_run \in BOOLEAN
  /\ files \in { S \in SUBSET Catalogue(base_target) : Cardinality(S) <= MaxFiles }
  /\ dirs = UNION { Prefixes(Parent(f.path)) : f \in files }
              \cup { IMP, IMP \o <<D("a")>>, IMP \o <<D("b")>> }
  /\ pc = "init"
  /\ frames = <<>>
  /\ root = <<>>
  /\ pending = {}
  /\ scanned_files = 0
  /\ moved_count = 0
  /\ skipped_aae = 0
  /\ skipped_non_media = 0
  /\ skipped_non_media_files = <<>>
  /\ conflicts = <<>>
  /\ errors = <<>>
  /\ src_path = <<>>
  /\ dt = None
  /\ ret = None
  /\ log_text = None
  /\ clock = 1
  /\ fault = "none"
  /\ faults = 0
  /\ would_move = 0
  /\ listed = 0
  /\ files0 = files
  /\ dirs0 = dirs
  /\ run = 1
  /\ first = None

\* move_files up to the loops: the check of source_dir, then the counters.
\* The call runs on the filesystem (fs_files, fs_dirs) with dry_run = dry.
Enter(fs_files, fs_dirs, dry) ==
  /\ files' = fs_files
  /\ dirs' = fs_dirs
  /\ files0' = fs_files
  /\ dirs0' = fs_dirs
  /\ dry_run' = dry
  /\ IF SourceOk(fs_files, fs_dirs, source_dir)
       THEN pc' = "walk" /\ frames' = << {source_dir} >>
       ELSE pc' = "raised" /\ frames' = <<>>
  /\ root' = <<>>
  /\ pending' = {}
  /\ scanned_files' = 0
  /\ moved_count' = 0
  /\ skipped_aae' = 0
  /\ skipped_non_media' = 0
  /\ skipped_non_media_files' = <<>>
  /\ conflicts' = <<>>
  /\ errors' = <<>>
  /\ src_path' = <<>>
  /\ dt' = None
  /\ ret' = None
  /\ log_text' = None
  /\ fault' = "none"
  /\ would_move' = 0
  /\ listed' = 0
  /\ UNCHANGED << source_dir, base_target, clock, faults >>

\* The first call.
Start ==
  /\ pc = "init"
  /\ Enter(files, dirs, dry_run)
  /\ UNCHANGED << run, first >>

\* frames without the exhausted directories at its end.
RECURSIVE Trim(_)
Trim(fr) ==
  IF fr = <<>> THEN <<>>
  ELSE IF fr[Len(fr)] = {} THEN Trim(SubSeq(fr, 1, Len(fr) - 1))
  ELSE fr

\* os.walk yields the next directory, top-down: one of the subdirectories
\* still to visit of the innermost directory that has any, listed as it is
\* now.
WalkDir ==
  /\ pc = "walk"
  /\ pending = {}
  /\ Trim(frames) # <<>>
  /\ LET fr == Trim(frames)
         top == Len(fr)
     IN  \E d \in fr[top] :
           /\ root' = d
           /\ pending' = ListFiles(files, d)
           /\ listed' = listed + Cardinality(ListFiles(files, d))
           /\ frames' = Append([fr EXCEPT ![top] = @ \ {d}], ListDirs(dirs, d))
  /\ UNCHANGED << source_dir, base_target, dry_run, files, dirs, pc,
                  scanned_files, moved_count, skipped_aae, skipped_non_media,
                  skipped_non_media_files, conflicts, errors, src_path, dt, ret,
                  log_text, clock, fault, faults, would_move, files0, dirs0,
                  run, first >>

\* The loop body for the next file name of the listing; flt is the
\* filesystem operation that fails in it, if one does.
ProcessFile ==
  /\ pc = "walk"
  /\ pending # {}
  /\ \E fname \in pending, flt \in {"none"} \cup FaultKinds :
       \E n \in { LoopBody(LoopState, Join(root, fname), fname, dry_run,
                           base_target, flt) } :
           /\ n.fault = flt
           /\ flt # "none" => faults < MaxFaults
           /\ pending' = pending \ {fname}
           /\ scanned_files' = scanned_files + 1
           /\ src_path' = Join(root, fname)
           /\ files' = n.files
           /\ dirs' = n.dirs
           /\ moved_count' = n.moved_count
           /\ skipped_aae' = n.skipped_aae
           /\ skipped_non_media' = n.skipped_non_media
           /\ skipped_non_media_files' = n.skipped_non_media_files
           /\ conflicts' = n.conflicts
           /\ errors' = n.errors
           /\ would_move' = n.would_move
           /\ dt' = n.dt
           /\ fault' = n.fault
           /\ faults' = IF n.fault = "none" THEN faults ELSE faults + 1
  /\ UNCHANGED << source_dir, base_target, dry_run, pc, frames, root, ret,
                  log_text, clock, listed, files0, dirs0, run, first >>

\* The dict move_files returns.
Result(log_path) ==
  [scanned |-> scanned_files, moved |-> moved_count, skipped_aae |-> skipped_aae,
   skipped_non_media |-> skipped_non_media,
   skipped_non_media_files |-> skipped_non_media_files,
   conflicts |-> conflicts, errors |-> errors, log |-> log_path]

\* What the log file holds.
LogText(timestamp) ==
  [timestamp |-> timestamp, source |-> source_dir, base |-> base_target,
   dry_run |-> dry_run, moved |-> moved_count, skipped_aae |-> skipped_aae,
   skipped_non_media |-> skipped_non_media, conflicts |-> conflicts,
   errors |-> errors]

\* The log file's id, by the second it was written in.
LogId(timestamp) == 100 + timestamp

\* After the loops: the log directory, the log file, the return.
WriteLog ==
  /\ pc = "walk"
  /\ pending = {}
  /\ Trim(frames) = <<>>
  /\ LET timestamp == clock
         log_dir == base_target \o <<D("_move_logs")>>
         log_path == Join(log_dir, F("move_log_" \o ToString(timestamp), TXT))
     IN  /\ dirs' = dirs \cup Prefixes(log_dir)
         /\ files' = { f \in files : f.path # log_path }
                       \cup { [path |-> log_path, id |-> LogId(timestamp)] }
         /\ log_text' = LogText(timestamp)
         /\ ret' = Result(log_path)
  /\ clock' = clock + 1
  /\ pc' = "done"
  /\ frames' = <<>>
  /\ UNCHANGED << source_dir, base_target, dry_run, root, pending,
                  scanned_files, moved_count, skipped_aae, skipped_non_media,
                  skipped_non_media_files, conflicts, errors, src_path, dt,
                  fault, faults, would_move, listed, files0, dirs0, run, first >>

\* A second call with the same arguments, on the filesystem the first left.
Rerun ==
  /\ pc = "done"
  /\ run = 1
  /\ run' = 2
  /\ first' = ret
  /\ Enter(files, dirs, dry_run)

\* A second call on a filesystem like the one the first call started from,
\* with dry_run the other way round.
Replay ==
  /\ pc = "done"
  /\ run = 1
  /\ run' = 2
  /\ first' = ret
  /\ Enter(files0, dirs0, ~dry_run)

Next == Start \/ WalkDir \/ ProcessFile \/ WriteLog

Spec == Init /\ [][Next]_vars

\* Two real runs in sequence.
\* The files the two-run sessions start from: the two photo.jpg, clip.MOV, readme.txt,
\* the photo.jpg already filed, bad.mp4 and the old log.
TwiceIds == {1, 2, 3, 5, 6, 8, 9}

InitTwice ==
  /\ Init
  /\ dry_run = FALSE
  /\ source_dir = IMP
  /\ \A f \in files : f.id \in TwiceIds

NextTwice == Next \/ Rerun

SpecTwice == InitTwice /\ [][NextTwice]_vars

\* A run and its dry or real counterpart from the same filesystem.
InitPair == Init /\ source_dir = IMP

NextPair == Next \/ Replay

SpecPair == InitPair /\ [][NextPair]_vars

\* ----------------------------------------------------------------- claims

Last(p) == p[Len(p)]

Range(q) == { q[i] : i \in 1..Len(q) }

LogDir == base_target \o <<D("_move_logs")>>

\* The loop body has just run for one more file.
Processed == scanned_files' = scanned_files + 1

\* C1, as stated: whenever move_files returns, for any dry_run, scanned =
\* moved + skipped_aae + skipped_non_media + len(conflicts) + len(errors).
C1_EveryFileInOneBucket ==
  pc = "done" =>
    ret.scanned = ret.moved + ret.skipped_aae + ret.skipped_non_media
                    + Len(ret.conflicts) + Len(ret.errors)

\* C1, amended: whenever move_files returns, scanned = moved + skipped_aae +
\* skipped_non_media + len(conflicts) + len(errors) + the number of files
\* the dry-run branch was taken for; that number is 0 in a real run, and
\* moved is 0 in a dry run.
C1_Accounting ==
  pc = "done" =>
    /\ ret.scanned = ret.moved + ret.skipped_aae + ret.skipped_non_media
                       + Len(ret.conflicts) + Len(ret.errors) + would_move
    /\ ~dry_run => would_move = 0
    /\ dry_run => ret.moved = 0

\* A real run that moved a file, recorded a conflict and skipped a non-media file.
C1_Witness ==
  /\ pc = "done"
  /\ ~dry_run
  /\ ret.moved >= 1
  /\ Len(ret.conflicts) >= 1
  /\ ret.skipped_non_media >= 1

\* C2: when the loop body runs for a media file whose timestamp was
\* resolved and whose destination path exists at that moment, no file is
\* moved, overwritten or removed, exactly one conflict (source, destination)
\* is appended, and nothing is counted as moved or as an error.
C2_ConflictSafety ==
  [][ ( /\ Processed
        /\ dt'.tag = "dt"
        /\ Exists(files, dirs, Join(DestDir(base_target, dt'), Last(src_path'))) )
      => /\ files' = files
         /\ conflicts' = Append(conflicts,
               [source |-> src_path',
                destination |-> Join(DestDir(base_target, dt'), Last(src_path'))])
         /\ moved_count' = moved_count
         /\ errors' = errors ]_vars

\* A conflict with a destination that an earlier move of the same run made:
\* both files are still there, each with its own content.
C2_Witness ==
  /\ pc = "done"
  /\ moved_count >= 1
  /\ \E c \in Range(conflicts) :
       /\ c.source # c.destination
       /\ c.destination \notin { f.path : f \in files0 }
       /\ \E f \in files, g \in files :
            f.path = c.source /\ g.path = c.destination /\ f.id # g.id

\* C3, as stated: in a dry run no file is moved or removed, and nothing is
\* created but the log file and its directory base_target/_move_logs.
C3_DryRunLeavesFilesystem ==
  (dry_run /\ pc \in {"walk", "done"}) =>
    /\ files0 \subseteq files
    /\ \A f \in files \ files0 : Parent(f.path) = LogDir
    /\ dirs0 \subseteq dirs
    /\ dirs \ dirs0 \subseteq Prefixes(LogDir)

\* C4, as stated: a dry run and a real run from the same filesystem, neither
\* with a failing filesystem operation, report the same skipped_aae, the
\* same skipped_non_media and the same conflicts.
C4_SameClassification ==
  (pc = "done" /\ run = 2 /\ faults = 0) =>
    /\ first.skipped_aae = ret.skipped_aae
    /\ first.skipped_non_media = ret.skipped_non_media
    /\ Range(first.conflicts) = Range(ret.conflicts)

C6_Isolation ==
  [][ /\ (Processed /\ (fault' # "none" \/ dt'.tag = "raise"))
         => /\ Len(errors') = Len(errors) + 1
            /\ SubSeq(errors', 1, Len(errors)) = errors
            /\ errors'[Len(errors')].file = src_path'
            /\ moved_count' = moved_count
            /\ conflicts' = conflicts
            /\ pc' = "walk"
            /\ pending' = pending \ {Last(src_path')}
            /\ frames' = frames
      /\ pc' = "done" => (scanned_files' = listed' /\ pending' = {}) ]_vars

\* A finished run in which a file failed and another file was moved after it.
C6_Witness ==
  /\ pc = "done"
  /\ Len(errors) = 1
  /\ moved_count >= 1
  /\ src_path # errors[1].file
  /\ \E f \in files : f.path \notin { g.path : g \in files0 } /\ Last(f.path) = Last(src_path)

\* C7: when source_dir is not a directory, the call raises and nothing is
\* created, moved or written.
C7_NotFoundBeforeSideEffects ==
  source_dir \notin dirs0 =>
    /\ pc \in {"init", "raised"}
    /\ files = files0
    /\ dirs = dirs0
    /\ ret = None
    /\ log_text = None

\* The call raised for a source_dir that exists and is a file.
C7_Witness ==
  /\ pc = "raised"
  /\ \E f \in files : f.path = source_dir

\* Where the files of the Catalogue belong: the year and month of the capture
\* time for the photos whose EXIF holds a readable one (1, 2, 10), of the
\* modification time for the others.
ExpectedFolder(id) ==
  CASE id \in {1, 2} -> <<D("2023"), D("05_mei")>>
    [] id \in {3, 7} -> <<D("2022"), D("11_november")>>
    [] id = 6 -> <<D("2023"), D("05_mei")>>
    [] id = 10 -> <<D("2022"), D("11_november")>>
    [] OTHER -> <<D("nowhere")>>

\* C8: in a real run, the files no longer at their source path are exactly
\* moved_count many, and each is at base_target/<year>/<month folder>/<its
\* own name> for the year and month of its resolved timestamp.
C8_Placement ==
  ~dry_run =>
    /\ moved_count = Cardinality({ f \in files0 : f \notin files })
    /\ \A f \in files0 :
         f \notin files =>
           [path |-> Join(base_target \o ExpectedFolder(f.id), Last(f.path)),
            id |-> f.id] \in files

\* photo.jpg is at 2023/05_mei/photo.jpg and clip.MOV at 2022/11_november/clip.MOV.
C8_Witness ==
  /\ pc = "done"
  /\ moved_count = 2
  /\ [path |-> base_target \o <<D("2023"), D("05_mei"), F("photo", JPG)>>, id |-> 1] \in files
  /\ [path |-> base_target \o <<D("2022"), D("11_november"),
                                F("clip", <<".", "M", "O", "V">>)>>, id |-> 3] \in files
  /\ \A f \in files : f.id \in {1, 3} => f \notin files0

\* C9: the loop body, run for a file whose extension is .aae in any letter
\* case, adds one to skipped_aae and changes nothing else; run for a file
\* whose extension is neither .aae nor a media extension, it adds one to
\* skipped_non_media, appends the path to skipped_non_media_files and
\* changes nothing else.
C9_IneligibleNeverMoved ==
  [][ Processed =>
        /\ Lower(Suffix(Last(src_path'))) = AAE_EXTENSION =>
             /\ skipped_aae' = skipped_aae + 1
             /\ UNCHANGED << files, dirs, moved_count, skipped_non_media,
                             skipped_non_media_files, conflicts, errors >>
        /\ Lower(Suffix(Last(src_path'))) \notin MEDIA_EXTENSIONS \cup {AAE_EXTENSION} =>
             /\ skipped_non_media' = skipped_non_media + 1
             /\ skipped_non_media_files' = Append(skipped_non_media_files, src_path')
             /\ UNCHANGED << files, dirs, moved_count, skipped_aae,
                             conflicts, errors >> ]_vars

\* A real run that skipped note.AAE and a non-media file and moved a file.
C9_Witness ==
  /\ pc = "done"
  /\ skipped_aae = 1
  /\ skipped_non_media = 1
  /\ moved_count = 1
  /\ [path |-> IMP \o <<D("a"), F("note", <<".", "A", "A", "E">>)>>, id |-> 4] \in files

\* C10, as stated: get_file_datetime never raises; called for a file, it
\* returns a datetime.
C10_ResolverNeverFails == dt.tag \in {"None", "dt"}

====
